---- MODULE Spec2Model ----
(***************************************************************************)
(* Blaze AI predictor: pattern mining (analyzePatterns), the five          *)
(* prediction heuristics (generatePredictions), signal aggregation         *)
(* (generateSignal) and the analysis pass (runAnalysis) of the BlazeAI     *)
(* component, src/unnamed/part_000, with its store blazeDB,                *)
(* src/src/lib/database.ts, and the TipMiner boundary,                     *)
(* src/unnamed/part_001.                                                   *)
(*                                                                         *)
(* Numbers.  The code computes accuracies and confidences as IEEE doubles  *)
(* ((count / total) * 100, sums of confidences divided by a count).  They  *)
(* are modelled as exact fractions in lowest terms, [n |-> , d |-> ]: for  *)
(* every count/total with total <= 201 (the log holds no more once an      *)
(* outcome has arrived or the simulated data were made) the                *)
(* double compares to 65, 70, 75 and 85 exactly as the fraction does, the  *)
(* doubles are ordered as the fractions are, and the averaged confidences  *)
(* compare to 65 and 75 as the exact averages do.                          *)
(***************************************************************************)
EXTENDS Integers, Sequences, FiniteSets, TLC

(***************************************************************************)
(* Bounds of the model.                                                    *)
(***************************************************************************)
\* longest exhaustively enumerated two-colour log
MaxShort == 10
\* longest period of the periodic logs
MaxPeriod == 5
\* longest free suffix appended to a periodic log
MaxSuffix == 1
\* longest exhaustively enumerated three-colour log
MaxTri == 6
\* length of the periodic part of a periodic log
MaxBody == 32
\* longest run of one colour in a log of runs
MaxRun == 7
\* most runs in a log of runs
MaxReps == 3
\* longest unfinished run at the end of a log of runs
MaxRunTail == 4
\* length of the long logs
MaxLong == 45
\* length of the logs that are analysed again
MaxRerun == 12
\* longest three-colour word such a log repeats
MaxWord == 3
\* clock readings 0..MaxClock
MaxClock == 1
\* values Math.random() is drawn from, 1..MaxRand
MaxRand == 1
\* outcomes that arrive in a run
MaxArrivals == 3
\* analysis passes pending at once
MaxTimers == 2
\* candidates in an enumerated candidate list
MaxCandidates == 3

(***************************************************************************)
(* Program constants.                                                      *)
(***************************************************************************)
MinLength == 3
MaxLength == 10
MinCount == 5
MinAccuracy == 65
MaxPatterns == 30
RecentSize == 15
\* tipMinerAPI.fetchHistoricalData(100)
FetchLimit == 100

\* Object.entries order of { red: 0, black: 0, white: 0 }
ColorOrder == <<"red", "black", "white">>
\* Object.entries order of { NEXT: 0, WAIT_1: 0, WAIT_2: 0 }
TimingOrder == <<"NEXT", "WAIT_1", "WAIT_2">>

Colors == {"red", "black", "white"}

(***************************************************************************)
(* Numbers as exact fractions.                                             *)
(***************************************************************************)
RECURSIVE GCD(_, _)
GCD(a, b) == IF b = 0 THEN a ELSE GCD(b, a % b)

Frac(n, d) == LET g == GCD(n, d) IN [n |-> n \div g, d |-> d \div g]

Num(k) == [n |-> k, d |-> 1]

FGt(a, b) == a.n * b.d > b.n * a.d

FGe(a, b) == a.n * b.d >= b.n * a.d

FAdd(a, b) == Frac(a.n * b.d + b.n * a.d, a.d * b.d)

FDiv(a, k) == Frac(a.n, a.d * k)

FMin(a, b) == IF FGt(a, b) THEN b ELSE a

\* Number.prototype.toFixed(1): the value in tenths, rounded half up
ToFixed1(a) == (20 * a.n + a.d) \div (2 * a.d)

(***************************************************************************)
(* Array helpers.                                                          *)
(***************************************************************************)
\* Array.prototype.slice(-n)
SliceLast(s, n) == SubSeq(s, IF Len(s) > n THEN Len(s) - n + 1 ELSE 1, Len(s))

\* Array.prototype.slice(0, -1)
SliceButLast(s) == SubSeq(s, 1, Len(s) - 1)

\* Array.prototype.slice(0, n)
SliceFirst(s, n) == SubSeq(s, 1, IF Len(s) > n THEN n ELSE Len(s))

\* Array.prototype.join('-'): the items with a "-" between neighbours
Join(s) ==
  LET n == IF Len(s) = 0 THEN 0 ELSE 2 * Len(s) - 1
  IN  SubSeq([k \in 1..n |-> IF k % 2 = 1 THEN s[(k + 1) \div 2] ELSE "-"], 1, n)

\* String.prototype.split('-'): the pieces between the "-"
Split(str) ==
  LET n == (Len(str) + 1) \div 2
  IN  SubSeq([k \in 1..n |-> str[2 * k - 1]], 1, n)

\* number of items of s equal to x
CountOf(s, x) == Cardinality({i \in 1..Len(s) : s[i] = x})

\* Array.prototype.reduce((a, b) => a[1] > b[1] ? a : b) over the entries
\* <<key, count>> of a three-key object: the later entry wins a tie
ReduceMax(entries) ==
  LET pick(a, b) == IF a[2] > b[2] THEN a ELSE b
  IN  pick(pick(entries[1], entries[2]), entries[3])[1]

\* Array.prototype.sort (stable) by a numeric key, descending:
\* key[i] is the fraction item i is ordered by
SortDesc(s, key) ==
  LET n == Len(s)
      \* the place of item i: after the greater, and after the equal before it
      rank == SubSeq([i \in 1..n |->
                 Cardinality({j \in 1..n : FGt(key[j], key[i])})
                 + Cardinality({j \in 1..(i - 1) : key[j] = key[i]}) + 1], 1, n)
  IN  [k \in 1..n |-> s[CHOOSE i \in 1..n : rank[i] = k]]

(***************************************************************************)
(* analyzePatterns                                                         *)
(***************************************************************************)
\* colorCounts: for each colour, how many entries of predictions it is
ColorCounts(predictions) ==
  [k \in 1..3 |-> <<ColorOrder[k], CountOf(predictions, ColorOrder[k])>>]

\* the colour reduce() picks from colorCounts
MostCommon(predictions) == ReduceMax(ColorCounts(predictions))

\* (colorCounts[mostCommon] / predictions.length) * 100
Accuracy(predictions) ==
  Frac(CountOf(predictions, MostCommon(predictions)) * 100, Len(predictions))

\* mutation: the last colour of window i taken for the colour after it
NextColorInside(sequences, i, length) == sequences[i + length - 1]

\* sequences[i + length], the colour after window i (i counts from 1 here)
NextColor(sequences, i, length) == sequences[i + length]

\* mutation: the filter without its accuracy test
QualifiesByCount(e) == e.count >= MinCount

\* the filter of patternMap.forEach: count >= 5 and accuracy > 65
Qualifies(e) ==
  /\ e.count >= MinCount
  /\ FGt(Accuracy(e.predictions), Num(MinAccuracy))

\* one turn of the loop over i: window i (1-based) entered in patternMap;
\* the map is the sequence of its entries in insertion order
PatternStep(sequences, length, i, map) ==
  LET pattern == Join(SubSeq(sequences, i, i + length - 1))
      nextColor == NextColor(sequences, i, length)
      at == {k \in 1..Len(map) : map[k].pattern = pattern}
      k == CHOOSE x \in at : TRUE
  IN  IF at = {}
      THEN Append(map, [pattern |-> pattern, count |-> 1,
                        predictions |-> <<nextColor>>])
      ELSE [map EXCEPT ![k].count = @ + 1,
                       ![k].predictions = Append(@, nextColor)]

\* the turns lo..hi of the loop, in their order: those of the first half
\* of the range, then those of the second
RECURSIVE PatternLoop(_, _, _, _, _)
PatternLoop(sequences, length, lo, hi, map) ==
  IF lo > hi THEN map
  ELSE IF lo = hi THEN PatternStep(sequences, length, lo, map)
  ELSE
    LET mid == (lo + hi) \div 2
        first == PatternLoop(sequences, length, lo, mid, map)
    IN  IF Len(first) = 0 THEN first
        ELSE PatternLoop(sequences, length, mid + 1, hi, first)

\* the loop over i filling patternMap, from window i (1-based) on
PatternMap(sequences, length, i, map) ==
  PatternLoop(sequences, length, i, Len(sequences) - length, map)

\* patternMap.forEach: the patterns of one window length pushed to
\* foundPatterns; idx0 patterns were pushed before
PatternsOfLength(sequences, length, idx0, t, r) ==
  LET kept == SelectSeq(PatternMap(sequences, length, 1, <<>>), Qualifies)
  IN  [k \in 1..Len(kept) |->
         [id |-> <<t, r, idx0 + k>>,
          sequence |-> Split(kept[k].pattern),
          frequency |-> kept[k].count,
          accuracy |-> Accuracy(kept[k].predictions),
          lastSeen |-> t,
          nextPrediction |-> MostCommon(kept[k].predictions)]]

RECURSIVE FoundPatterns(_, _, _, _, _)
FoundPatterns(sequences, length, acc, t, r) ==
  IF length > MaxLength THEN acc
  ELSE FoundPatterns(sequences, length + 1,
         acc \o PatternsOfLength(sequences, length, Len(acc), t, r), t, r)

\* mutation: slice(0, 30) before the sort
AnalyzePatternsCutFirst(data, t, r) ==
  LET sequences == SubSeq([i \in 1..Len(data) |-> data[i].color], 1, Len(data))
      cut == SliceFirst(FoundPatterns(sequences, MinLength, <<>>, t, r), MaxPatterns)
  IN  SortDesc(cut, SubSeq([i \in 1..Len(cut) |-> cut[i].accuracy], 1, Len(cut)))

AnalyzePatterns(data, t, r) ==
  LET sequences == SubSeq([i \in 1..Len(data) |-> data[i].color], 1, Len(data))
      foundPatterns == FoundPatterns(sequences, MinLength, <<>>, t, r)
      sorted == SortDesc(foundPatterns,
                  SubSeq([i \in 1..Len(foundPatterns) |-> foundPatterns[i].accuracy],
                         1, Len(foundPatterns)))
  IN  SliceFirst(sorted, MaxPatterns)

(***************************************************************************)
(* generatePredictions                                                     *)
(***************************************************************************)
\* mutation: the whole sequence of a pattern compared with the tail
RECURSIVE PatternSequenceWhole(_, _, _)
PatternSequenceWhole(recent, patterns, len) ==
  IF len < 3 THEN <<>>
  ELSE
    LET currentSequence == Join(SliceLast(recent, len))
        hits == {i \in 1..Len(patterns) :
                   Join(patterns[i].sequence) = currentSequence}
        matchingPattern == patterns[CHOOSE i \in hits : \A j \in hits : i <= j]
    IN  IF hits # {} /\ FGt(matchingPattern.accuracy, Num(70))
        THEN <<[color |-> matchingPattern.nextPrediction,
                confidence |-> matchingPattern.accuracy,
                algorithm |-> "Pattern Sequence",
                reasoning |-> <<"Padrao", matchingPattern.sequence,
                                ToFixed1(matchingPattern.accuracy)>>,
                entryTiming |-> IF FGt(matchingPattern.accuracy, Num(85)) THEN "NEXT"
                                ELSE IF FGt(matchingPattern.accuracy, Num(75))
                                     THEN "WAIT_1" ELSE "WAIT_2"]>>
        ELSE PatternSequenceWhole(recent, patterns, len - 1)

\* Algoritmo 1: the loop over len = 5, 4, 3, from len downwards
RECURSIVE PatternSequence(_, _, _)
PatternSequence(recent, patterns, len) ==
  IF len < 3 THEN <<>>
  ELSE
    LET currentSequence == Join(SliceLast(recent, len))
        hits == {i \in 1..Len(patterns) :
                   Join(SliceButLast(patterns[i].sequence)) = currentSequence}
        \* Array.prototype.find: the first match
        matchingPattern == patterns[CHOOSE i \in hits : \A j \in hits : i <= j]
    IN  IF hits # {} /\ FGt(matchingPattern.accuracy, Num(70))
        THEN <<[color |-> matchingPattern.nextPrediction,
                confidence |-> matchingPattern.accuracy,
                algorithm |-> "Pattern Sequence",
                reasoning |-> <<"Padrao", matchingPattern.sequence,
                                ToFixed1(matchingPattern.accuracy)>>,
                entryTiming |-> IF FGt(matchingPattern.accuracy, Num(85)) THEN "NEXT"
                                ELSE IF FGt(matchingPattern.accuracy, Num(75))
                                     THEN "WAIT_1" ELSE "WAIT_2"]>>
        ELSE PatternSequence(recent, patterns, len - 1)

\* Object.entries(colorCounts).sort((a, b) => a[1] - b[1])[0][0]: the first
\* colour, in the order red, black, white, of the least count
LeastFrequent(last10) ==
  LET counts == ColorCounts(last10)
  IN  counts[CHOOSE k \in 1..3 :
                /\ \A j \in 1..3 : counts[k][2] <= counts[j][2]
                /\ \A j \in 1..(k - 1) : counts[j][2] > counts[k][2]][1]

\* mutation: more than 8 outcomes asked for
FrequencyGapOver(recent) ==
  LET last10 == SliceLast(recent, 10)
      leastFrequent == LeastFrequent(last10)
  IN  IF CountOf(last10, leastFrequent) = 0 /\ Len(last10) > 8
      THEN <<[color |-> leastFrequent,
              confidence |-> Num(78),
              algorithm |-> "Frequency Gap",
              reasoning |-> <<leastFrequent, "nao aparece ha", Len(last10)>>,
              entryTiming |-> "NEXT"]>>
      ELSE <<>>

\* Algoritmo 2
FrequencyGap(recent) ==
  LET last10 == SliceLast(recent, 10)
      leastFrequent == LeastFrequent(last10)
  IN  IF CountOf(last10, leastFrequent) = 0 /\ Len(last10) >= 8
      THEN <<[color |-> leastFrequent,
              confidence |-> Num(78),
              algorithm |-> "Frequency Gap",
              reasoning |-> <<leastFrequent, "nao aparece ha", Len(last10)>>,
              entryTiming |-> "NEXT"]>>
      ELSE <<>>

\* the loop counting currentStreak: the run of streakColor that ends recent
CurrentStreak(recent) ==
  LET n == Len(recent)
      run == {k \in 1..n : \A i \in (n - k + 1)..n : recent[i] = recent[n]}
  IN  IF n = 0 THEN 1 ELSE Cardinality(run)

\* mutation: a run of white reversed like any other
StreakReversalAnyColor(recent) ==
  LET currentStreak == CurrentStreak(recent)
      streakColor == IF Len(recent) = 0 THEN "undefined" ELSE recent[Len(recent)]
      oppositeColor == IF streakColor = "red" THEN "black" ELSE "red"
  IN  IF currentStreak >= 4
      THEN <<[color |-> oppositeColor,
              confidence |-> FMin(Num(88), Num(65 + currentStreak * 4)),
              algorithm |-> "Streak Reversal",
              reasoning |-> <<"Streak de", currentStreak, streakColor>>,
              entryTiming |-> IF currentStreak >= 6 THEN "NEXT" ELSE "WAIT_1"]>>
      ELSE <<>>

\* Algoritmo 3
StreakReversal(recent) ==
  LET currentStreak == CurrentStreak(recent)
      streakColor == IF Len(recent) = 0 THEN "undefined" ELSE recent[Len(recent)]
      oppositeColor == IF streakColor = "red" THEN "black" ELSE "red"
  IN  IF currentStreak >= 4 /\ streakColor # "white"
      THEN <<[color |-> oppositeColor,
              confidence |-> FMin(Num(88), Num(65 + currentStreak * 4)),
              algorithm |-> "Streak Reversal",
              reasoning |-> <<"Streak de", currentStreak, streakColor>>,
              entryTiming |-> IF currentStreak >= 6 THEN "NEXT" ELSE "WAIT_1"]>>
      ELSE <<>>

\* Algoritmo 4
WhitePrediction(recent) ==
  LET n == Len(recent)
      whites == {k \in 0..(n - 1) : recent[n - k] = "white"}
      \* findIndex on the reversed tail
      whiteGap == IF whites = {} THEN -1
                  ELSE CHOOSE k \in whites : \A j \in whites : k <= j
      actualGap == IF whiteGap = -1 THEN n ELSE whiteGap
  IN  IF actualGap >= 40
      THEN <<[color |-> "white",
              confidence |-> FMin(Num(85), Num(60 + (actualGap - 40) * 2)),
              algorithm |-> "White Prediction",
              reasoning |-> <<"Branco nao sai ha", actualGap>>,
              entryTiming |-> IF actualGap >= 60 THEN "NEXT" ELSE "WAIT_1"]>>
      ELSE <<>>

\* mutation: the last 4 outcomes looked at instead of the last 6
AlternatingPatternLast4(recent) ==
  LET last6 == SliceLast(recent, 4)
      isAlternating == \A i \in 2..Len(last6) : last6[i] # last6[i - 1]
      lastColor == last6[Len(last6)]
      predictedColor == IF lastColor = "red" THEN "black" ELSE "red"
  IN  IF isAlternating /\ Len(last6) >= 4
      THEN <<[color |-> predictedColor,
              confidence |-> Num(72),
              algorithm |-> "Alternating Pattern",
              reasoning |-> <<"Padrao alternado", predictedColor>>,
              entryTiming |-> "NEXT"]>>
      ELSE <<>>

\* mutation: three outcomes taken for enough
AlternatingPatternFromThree(recent) ==
  LET last6 == SliceLast(recent, 6)
      isAlternating == \A i \in 2..Len(last6) : last6[i] # last6[i - 1]
      lastColor == last6[Len(last6)]
      predictedColor == IF lastColor = "red" THEN "black" ELSE "red"
  IN  IF isAlternating /\ Len(last6) >= 3
      THEN <<[color |-> predictedColor,
              confidence |-> Num(72),
              algorithm |-> "Alternating Pattern",
              reasoning |-> <<"Padrao alternado", predictedColor>>,
              entryTiming |-> "NEXT"]>>
      ELSE <<>>

\* Algoritmo 5
AlternatingPattern(recent) ==
  LET last6 == SliceLast(recent, 6)
      isAlternating == \A i \in 2..Len(last6) : last6[i] # last6[i - 1]
      lastColor == last6[Len(last6)]
      predictedColor == IF lastColor = "red" THEN "black" ELSE "red"
  IN  IF isAlternating /\ Len(last6) >= 4
      THEN <<[color |-> predictedColor,
              confidence |-> Num(72),
              algorithm |-> "Alternating Pattern",
              reasoning |-> <<"Padrao alternado", predictedColor>>,
              entryTiming |-> "NEXT"]>>
      ELSE <<>>

\* mutation: the whole log read instead of its last 15 outcomes
RecentWhole(data) == [i \in 1..Len(data) |-> data[i].color]

\* data.slice(-15).map(r => r.color)
Recent(data) ==
  LET tail == SliceLast(data, RecentSize)
  IN  [i \in 1..Len(tail) |-> tail[i].color]

GeneratePredictions(data, patterns) ==
  LET recent == Recent(data)
      predictions == PatternSequence(recent, patterns, 5)
                       \o FrequencyGap(recent)
                       \o StreakReversal(recent)
                       \o WhitePrediction(recent)
                       \o AlternatingPattern(recent)
  IN  SortDesc(predictions,
               [i \in 1..Len(predictions) |-> predictions[i].confidence])

(***************************************************************************)
(* generateSignal                                                          *)
(***************************************************************************)
\* predictions.filter(p => p.color === color)
FilterColor(predictions, color) ==
  SelectSeq(predictions, LAMBDA p : p.color = color)

\* reduce((sum, p) => sum + p.confidence, 0)
RECURSIVE SumConfidence(_)
SumConfidence(ps) ==
  IF ps = <<>> THEN Num(0)
  ELSE FAdd(SumConfidence(SliceButLast(ps)), ps[Len(ps)].confidence)

\* timingCounts reduced to the entry timing of the signal
BestTiming(ps) ==
  ReduceMax([k \in 1..3 |->
     <<TimingOrder[k],
       Cardinality({i \in 1..Len(ps) : ps[i].entryTiming = TimingOrder[k]})>>])

\* mutation: the empty list answered as a list of low confidence
InsufficientDataAsLow(t) ==
  [action |-> "WAIT",
   confidence |-> Num(0),
   strategy |-> "Low Confidence",
   reasoning |-> <<"Confianca insuficiente">>,
   timestamp |-> t,
   entryTiming |-> "NEXT",
   roundsToWait |-> 0]

\* the signal returned for predictions.length === 0
InsufficientData(t) ==
  [action |-> "WAIT",
   confidence |-> Num(0),
   strategy |-> "Insufficient Data",
   reasoning |-> <<"Aguardando mais dados">>,
   timestamp |-> t,
   entryTiming |-> "NEXT",
   roundsToWait |-> 0]

\* mutation: an average above 75 asked for
HighConfidenceStrict(avgConfidence, consensusCount) ==
  FGt(avgConfidence, Num(75)) /\ consensusCount >= 2

\* avgConfidence >= 75 && consensusCount >= 2
HighConfidence(avgConfidence, consensusCount) ==
  FGe(avgConfidence, Num(75)) /\ consensusCount >= 2

\* mutation: the medium threshold put at the high one
MediumConfidenceStrict(avgConfidence) == FGe(avgConfidence, Num(75))

\* avgConfidence >= 65
MediumConfidence(avgConfidence) == FGe(avgConfidence, Num(65))

GenerateSignal(predictions, t) ==
  IF Len(predictions) = 0
  THEN InsufficientData(t)
  ELSE
    LET bestPrediction == predictions[1]
        same == FilterColor(predictions, bestPrediction.color)
        consensusCount == Len(same)
        avgConfidence == FDiv(SumConfidence(same), consensusCount)
        bestTiming == BestTiming(same)
        roundsToWait == IF bestTiming = "NEXT" THEN 0
                        ELSE IF bestTiming = "WAIT_1" THEN 1 ELSE 2
    IN  IF HighConfidence(avgConfidence, consensusCount)
        THEN [action |-> "BET",
              color |-> bestPrediction.color,
              confidence |-> avgConfidence,
              strategy |-> "High Confidence",
              reasoning |-> <<consensusCount, bestPrediction.color,
                              ToFixed1(avgConfidence)>>,
              timestamp |-> t,
              entryTiming |-> bestTiming,
              roundsToWait |-> roundsToWait]
        ELSE IF MediumConfidence(avgConfidence)
        THEN [action |-> "BET",
              color |-> bestPrediction.color,
              confidence |-> avgConfidence,
              strategy |-> "Medium Confidence",
              reasoning |-> <<"Sinal moderado", bestPrediction.color, roundsToWait>>,
              timestamp |-> t,
              entryTiming |-> bestTiming,
              roundsToWait |-> roundsToWait]
        ELSE [action |-> "WAIT",
              confidence |-> avgConfidence,
              strategy |-> "Low Confidence",
              reasoning |-> <<"Confianca insuficiente">>,
              timestamp |-> t,
              entryTiming |-> "NEXT",
              roundsToWait |-> 0]

(***************************************************************************)
(* blazeDB, src/src/lib/database.ts, over localStorage.  A method is given *)
(* the calls of localStorage that throw (fails) and gives back whether it  *)
(* threw and what it returns or leaves in the storage.  The stored text    *)
(* is JSON with the timestamps as ISO strings; outcomes, patterns and      *)
(* stats are modelled by their colours, tags and numbers, which            *)
(* JSON.stringify and JSON.parse give back as they were.                   *)
(***************************************************************************)
\* null, where an object is expected
Null == [null |-> TRUE]

\* the calls of localStorage the methods make
StorageCalls == {"getItem", "setItem"}

\* addResult keeps the last 1000 results
MaxStoredResults == 1000

\* savePrediction keeps the last 500 predictions
MaxStoredPredictions == 500

\* mutation: saveStats without its try/catch
SaveStatsUncaught(store, stats, fails) ==
  [threw |-> "setItem" \in fails,
   storage |-> IF "setItem" \in fails THEN store
               ELSE [store EXCEPT !.stats = stats]]

\* saveResults: setItem within try/catch
SaveResults(store, rs, fails) ==
  [threw |-> FALSE,
   storage |-> IF "setItem" \in fails THEN store
               ELSE [store EXCEPT !.results = rs]]

\* loadResults: getItem within try/catch, [] when it throws or finds none
LoadResults(store, fails) ==
  [threw |-> FALSE,
   value |-> IF "getItem" \in fails THEN <<>> ELSE store.results]

\* mutation: addResult keeps the first 1000 results
AddResultKeepFirst(store, result, fails) ==
  LET loaded == LoadResults(store, fails)
      pushed == Append(loaded.value, result)
      kept == SliceFirst(pushed, MaxStoredResults)
      saved == SaveResults(store, kept, fails)
  IN  IF loaded.threw THEN [threw |-> TRUE, storage |-> store] ELSE saved

\* addResult: loadResults, push, splice down to the last 1000, saveResults
AddResult(store, result, fails) ==
  LET loaded == LoadResults(store, fails)
      pushed == Append(loaded.value, result)
      kept == IF Len(pushed) > MaxStoredResults
              THEN SliceLast(pushed, MaxStoredResults) ELSE pushed
      saved == SaveResults(store, kept, fails)
  IN  IF loaded.threw THEN [threw |-> TRUE, storage |-> store] ELSE saved

\* savePatterns: setItem within try/catch
SavePatterns(store, ps, fails) ==
  [threw |-> FALSE,
   storage |-> IF "setItem" \in fails THEN store
               ELSE [store EXCEPT !.patterns = ps]]

\* loadPatterns: getItem within try/catch, [] when it throws or finds none
LoadPatterns(store, fails) ==
  [threw |-> FALSE,
   value |-> IF "getItem" \in fails THEN <<>> ELSE store.patterns]

\* saveStats: setItem within try/catch
SaveStats(store, stats, fails) ==
  [threw |-> FALSE,
   storage |-> IF "setItem" \in fails THEN store
               ELSE [store EXCEPT !.stats = stats]]

\* loadStats: getItem within try/catch, null when it throws or finds none
LoadStats(store, fails) ==
  [threw |-> FALSE,
   value |-> IF "getItem" \in fails THEN Null ELSE store.stats]

\* loadPredictions: getItem within try/catch, [] when it throws or finds
\* none
LoadPredictions(stored, fails) ==
  [threw |-> FALSE,
   value |-> IF "getItem" \in fails THEN <<>> ELSE stored]

\* savePrediction: loadPredictions, push, splice down to the last 500 and
\* setItem, all within try/catch
SavePrediction(stored, prediction, fails) ==
  LET loaded == LoadPredictions(stored, fails)
      pushed == Append(loaded.value, prediction)
      kept == IF Len(pushed) > MaxStoredPredictions
              THEN SliceLast(pushed, MaxStoredPredictions) ELSE pushed
  IN  [threw |-> FALSE,
       predictions |-> IF loaded.threw \/ "setItem" \in fails
                       THEN stored ELSE kept]

(***************************************************************************)
(* TipMinerAPI and validateBlazeResult, src/unnamed/part_001.  A value of  *)
(* JavaScript is modelled with its type: what is received is not bound     *)
(* to the types the interface TipMinerResult declares.                     *)
(***************************************************************************)
\* greatest colour code received (0 = white, 1 = red, 2 = black)
MaxCode == 3

\* greatest roll received
MaxRoll == 14

JsNumber(n) == [type |-> "number", number |-> n]

JsString(str) == [type |-> "string", text |-> str]

Undefined == [type |-> "undefined"]

\* the texts received as created_at: an ISO date and one that is no date
DateTexts == {"2024-01-01T00:00:00.000Z", "yesterday"}

\* new Date(x): a Date object, an Invalid Date unless x is the text of a
\* date (new Date(undefined) is an Invalid Date too)
NewDate(x) ==
  [type |-> "Date",
   valid |-> x.type = "string" /\ x.text = "2024-01-01T00:00:00.000Z"]

\* what TipMiner may send as one result
TipMinerResults ==
  [id : {JsNumber(1)},
   color : {JsNumber(c) : c \in -1..MaxCode} \cup {Undefined},
   roll : {JsNumber(k) : k \in 0..MaxRoll} \cup {JsString("7"), Undefined},
   created_at : {JsString(t) : t \in DateTexts} \cup {Undefined}]

\* convertColor: switch (colorCode), with default 'red'
ConvertColor(colorCode) ==
  IF colorCode = JsNumber(0) THEN "white"
  ELSE IF colorCode = JsNumber(1) THEN "red"
  ELSE IF colorCode = JsNumber(2) THEN "black"
  ELSE "red"

\* convertResult
ConvertResult(tipMinerResult) ==
  [id |-> tipMinerResult.id,
   color |-> JsString(ConvertColor(tipMinerResult.color)),
   number |-> tipMinerResult.roll,
   timestamp |-> NewDate(tipMinerResult.created_at)]

\* validateBlazeResult
ValidateBlazeResult(result) ==
  /\ result.id.type = "number"
  /\ result.color.type = "string"
  /\ result.color.text \in {"red", "black", "white"}
  /\ result.number.type = "number"
  /\ result.timestamp.type = "Date"

(***************************************************************************)
(* The BlazeAI component: its state and its handlers.                      *)
(***************************************************************************)
VARIABLES
  \* useState of the component
  results, patterns, currentPrediction, currentSignal, nextEntry,
  isAnalyzing, gameStats, lastPredictedColor,
  \* localStorage 'blaze_predictions', written by blazeDB.savePrediction
  predictionHistory,
  \* the pending setTimeout callbacks of runAnalysis, oldest first, each
  \* with the results its closure holds
  timers,
  \* the reading of Date.now()
  now,
  \* the candidate list (predictions) of the last analysis pass
  predictions,
  \* the last two completed analysis passes, oldest first: the log each
  \* read and what it computed
  passes,
  \* how many outcomes arrived (bounds the model)
  arrivals,
  \* dataCache holds 'latest_sync': a sync was made and is still cached
  latestSync,
  \* localStorage 'blaze_results', 'blaze_patterns' and 'blaze_stats'
  storage,
  \* the calls of localStorage that throw
  failing,
  \* the outcome last received from TipMiner and what was made of it
  received

vars == <<results, patterns, currentPrediction, currentSignal, nextEntry,
          isAnalyzing, gameStats, lastPredictedColor, predictionHistory,
          timers, now, predictions, passes, arrivals, latestSync,
          storage, failing, received>>

\* null, where a colour is expected
NoColor == "null"

\* useState<GameStats> initial value
InitialStats ==
  [totalPredictions |-> 0, correctPredictions |-> 0, accuracy |-> Num(0),
   greens |-> 0, reds |-> 0, currentStreak |-> 0, bestStreak |-> 0,
   profit |-> 0]

\* a log of n outcomes whose colours repeat base
Rep(base, n) == [i \in 1..n |-> [color |-> base[((i - 1) % Len(base)) + 1]]]

\* all logs of exactly n outcomes with colours of C
RECURSIVE LogsOfLen(_, _)
LogsOfLen(C, n) ==
  IF n = 0 THEN {<<>>}
  ELSE {Append(l, [color |-> c]) : l \in LogsOfLen(C, n - 1), c \in C}

LogsUpTo(C, n) == UNION {LogsOfLen(C, k) : k \in 0..n}

\* the state after mount and loadSavedData: the log is what the storage
\* holds, no stats and no patterns were saved, the auto-analysis effect
\* has called runAnalysis; failures are the sets of calls of localStorage
\* that may throw from then on
InitStoring(logs, failures) ==
  /\ results \in logs
  /\ patterns = <<>>
  /\ currentPrediction = Null
  /\ currentSignal = Null
  /\ nextEntry = "NEXT"
  /\ isAnalyzing = (Len(results) > 0)
  /\ gameStats = InitialStats
  /\ lastPredictedColor = NoColor
  /\ predictionHistory = <<>>
  /\ timers = IF Len(results) > 0 THEN <<results>> ELSE <<>>
  /\ now = 0
  /\ predictions = <<>>
  /\ passes = <<>>
  /\ arrivals = 0
  /\ latestSync = FALSE
  /\ storage = [results |-> results, patterns |-> <<>>, stats |-> Null]
  /\ failing \in failures
  /\ received = Null

\* the same with a localStorage that works
InitWith(logs) == InitStoring(logs, {{}})

\* runAnalysis: setIsAnalyzing(true) and the setTimeout over the results
\* of this render
RunAnalysis(data) ==
  /\ isAnalyzing' = TRUE
  /\ timers' = Append(timers, data)

\* the "Executar Analise" button, disabled while isAnalyzing
RunAnalysisClick ==
  /\ ~isAnalyzing
  /\ Len(timers) < MaxTimers
  /\ RunAnalysis(results)
  /\ UNCHANGED <<results, patterns, currentPrediction, currentSignal,
                 nextEntry, gameStats, lastPredictedColor,
                 predictionHistory, now, predictions, passes, arrivals, latestSync,
                 storage, failing, received>>

\* mutation: the patterns of a pass added to those of the passes before
AnalysisTimeoutKeeping(r) ==
  /\ timers # <<>>
  /\ timers' = Tail(timers)
  /\ \E data \in {Head(timers)} :
     \E foundPatterns \in {patterns \o AnalyzePatterns(data, now, r)} :
     \* blazeDB.savePatterns, the last statement of analyzePatterns
     \E saved \in {SavePatterns(storage, foundPatterns, failing)} :
       /\ storage' = saved.storage
       /\ IF saved.threw
          THEN UNCHANGED <<patterns, currentPrediction, currentSignal,
                           nextEntry, predictions, passes, isAnalyzing>>
          ELSE \E preds \in {GeneratePredictions(data, foundPatterns)} :
               \E signal \in {GenerateSignal(preds, now)} :
                 /\ patterns' = foundPatterns
                 /\ currentPrediction' = IF Len(preds) > 0 THEN preds[1] ELSE Null
                 /\ currentSignal' = signal
                 /\ nextEntry' = signal.entryTiming
                 /\ predictions' = preds
                 /\ passes' = SliceLast(passes, 1) \o
                                <<[data |-> data, patterns |-> foundPatterns,
                                   predictions |-> preds, signal |-> signal]>>
                 /\ isAnalyzing' = FALSE
  /\ UNCHANGED <<results, gameStats, lastPredictedColor, predictionHistory,
                 now, arrivals, latestSync, failing, received>>

\* mutation: the callback scheduled last runs first
AnalysisTimeoutNewestFirst(r) ==
  /\ timers # <<>>
  /\ timers' = SliceButLast(timers)
  /\ \E data \in {timers[Len(timers)]} :
     \E foundPatterns \in {AnalyzePatterns(data, now, r)} :
     \* blazeDB.savePatterns, the last statement of analyzePatterns
     \E saved \in {SavePatterns(storage, foundPatterns, failing)} :
       /\ storage' = saved.storage
       /\ IF saved.threw
          THEN UNCHANGED <<patterns, currentPrediction, currentSignal,
                           nextEntry, predictions, passes, isAnalyzing>>
          ELSE \E preds \in {GeneratePredictions(data, foundPatterns)} :
               \E signal \in {GenerateSignal(preds, now)} :
                 /\ patterns' = foundPatterns
                 /\ currentPrediction' = IF Len(preds) > 0 THEN preds[1] ELSE Null
                 /\ currentSignal' = signal
                 /\ nextEntry' = signal.entryTiming
                 /\ predictions' = preds
                 /\ passes' = SliceLast(passes, 1) \o
                                <<[data |-> data, patterns |-> foundPatterns,
                                   predictions |-> preds, signal |-> signal]>>
                 /\ isAnalyzing' = FALSE
  /\ UNCHANGED <<results, gameStats, lastPredictedColor, predictionHistory,
                 now, arrivals, latestSync, failing, received>>

\* the setTimeout callback of runAnalysis: one analysis pass; r is what
\* Math.random() returns. A statement that throws ends the callback
AnalysisTimeout(r) ==
  /\ timers # <<>>
  /\ timers' = Tail(timers)
  /\ \E data \in {Head(timers)} :
     \E foundPatterns \in {AnalyzePatterns(data, now, r)} :
     \* blazeDB.savePatterns, the last statement of analyzePatterns
     \E saved \in {SavePatterns(storage, foundPatterns, failing)} :
       /\ storage' = saved.storage
       /\ IF saved.threw
          THEN UNCHANGED <<patterns, currentPrediction, currentSignal,
                           nextEntry, predictions, passes, isAnalyzing>>
          ELSE \E preds \in {GeneratePredictions(data, foundPatterns)} :
               \E signal \in {GenerateSignal(preds, now)} :
                 /\ patterns' = foundPatterns
                 /\ currentPrediction' = IF Len(preds) > 0 THEN preds[1] ELSE Null
                 /\ currentSignal' = signal
                 /\ nextEntry' = signal.entryTiming
                 /\ predictions' = preds
                 /\ passes' = SliceLast(passes, 1) \o
                                <<[data |-> data, patterns |-> foundPatterns,
                                   predictions |-> preds, signal |-> signal]>>
                 /\ isAnalyzing' = FALSE
  /\ UNCHANGED <<results, gameStats, lastPredictedColor, predictionHistory,
                 now, arrivals, latestSync, failing, received>>

\* mutation: the action of the signal not asked for
IsScoredAnySignal(lastColor, signal) == lastColor # NoColor

\* lastPredictedColor && currentSignal?.action === 'BET'
IsScored(lastColor, signal) ==
  /\ lastColor # NoColor
  /\ signal # Null
  /\ signal.action = "BET"

\* mutation: a miss that leaves the streak as it was
NewStatsKeepStreak(stats, wasCorrect) ==
  LET total == stats.totalPredictions + 1
      correct == stats.correctPredictions + (IF wasCorrect THEN 1 ELSE 0)
      streak == IF wasCorrect THEN stats.currentStreak + 1 ELSE stats.currentStreak
  IN  [totalPredictions |-> total,
       correctPredictions |-> correct,
       accuracy |-> Frac(correct * 100, total),
       greens |-> stats.greens + (IF wasCorrect THEN 1 ELSE 0),
       reds |-> stats.reds + (IF wasCorrect THEN 0 ELSE 1),
       currentStreak |-> streak,
       bestStreak |-> IF stats.bestStreak > streak THEN stats.bestStreak ELSE streak,
       profit |-> stats.profit + (IF wasCorrect THEN 14 ELSE -10)]

\* mutation: the best streak left as it was
NewStatsOldBest(stats, wasCorrect) ==
  LET total == stats.totalPredictions + 1
      correct == stats.correctPredictions + (IF wasCorrect THEN 1 ELSE 0)
      streak == IF wasCorrect THEN stats.currentStreak + 1 ELSE 0
  IN  [totalPredictions |-> total,
       correctPredictions |-> correct,
       accuracy |-> Frac(correct * 100, total),
       greens |-> stats.greens + (IF wasCorrect THEN 1 ELSE 0),
       reds |-> stats.reds + (IF wasCorrect THEN 0 ELSE 1),
       currentStreak |-> streak,
       bestStreak |-> stats.bestStreak,
       profit |-> stats.profit + (IF wasCorrect THEN 14 ELSE -10)]

\* mutation: a miss not counted among the predictions
NewStatsHitsOnly(stats, wasCorrect) ==
  LET total == stats.totalPredictions + (IF wasCorrect THEN 1 ELSE 0)
      correct == stats.correctPredictions + (IF wasCorrect THEN 1 ELSE 0)
      streak == IF wasCorrect THEN stats.currentStreak + 1 ELSE 0
  IN  [totalPredictions |-> total,
       correctPredictions |-> correct,
       accuracy |-> IF total = 0 THEN Num(0) ELSE Frac(correct * 100, total),
       greens |-> stats.greens + (IF wasCorrect THEN 1 ELSE 0),
       reds |-> stats.reds + (IF wasCorrect THEN 0 ELSE 1),
       currentStreak |-> streak,
       bestStreak |-> IF stats.bestStreak > streak THEN stats.bestStreak ELSE streak,
       profit |-> stats.profit + (IF wasCorrect THEN 14 ELSE -10)]

\* newStats of addNewResult
NewStats(stats, wasCorrect) ==
  LET total == stats.totalPredictions + 1
      correct == stats.correctPredictions + (IF wasCorrect THEN 1 ELSE 0)
      streak == IF wasCorrect THEN stats.currentStreak + 1 ELSE 0
  IN  [totalPredictions |-> total,
       correctPredictions |-> correct,
       accuracy |-> Frac(correct * 100, total),
       greens |-> stats.greens + (IF wasCorrect THEN 1 ELSE 0),
       reds |-> stats.reds + (IF wasCorrect THEN 0 ELSE 1),
       currentStreak |-> streak,
       \* Math.max(newStats.bestStreak, newStats.currentStreak)
       bestStreak |-> IF stats.bestStreak > streak THEN stats.bestStreak ELSE streak,
       profit |-> stats.profit + (IF wasCorrect THEN 14 ELSE -10)]

\* addNewResult, for the colour generateRealisticResult draws, and the
\* auto-analysis effect its setResults triggers. A call of blazeDB that
\* throws ends the handler: the state set before it stays set
AddNewResult(color) ==
  /\ arrivals < MaxArrivals
  /\ Len(timers) < MaxTimers
  /\ arrivals' = arrivals + 1
  /\ LET scored == IsScored(lastPredictedColor, currentSignal)
         wasCorrect == color = lastPredictedColor
         newResult == IF scored
                      THEN [color |-> color, predicted |-> TRUE,
                            wasCorrect |-> wasCorrect]
                      ELSE [color |-> color]
         updatedResults == SliceLast(results, 199) \o <<newResult>>
         newStats == NewStats(gameStats, wasCorrect)
         \* blazeDB.savePrediction (450)
         savedPrediction ==
           IF scored
           THEN SavePrediction(predictionHistory,
                  [predictedColor |-> lastPredictedColor,
                   actualColor |-> color,
                   confidence |-> currentSignal.confidence,
                   algorithm |-> IF currentPrediction # Null
                                 THEN currentPrediction.algorithm
                                 ELSE "Unknown",
                   wasCorrect |-> wasCorrect,
                   entryTiming |-> currentSignal.entryTiming], failing)
           ELSE [threw |-> FALSE, predictions |-> predictionHistory]
         \* blazeDB.saveStats (476)
         savedStats ==
           IF scored THEN SaveStats(storage, newStats, failing)
           ELSE [threw |-> FALSE, storage |-> storage]
         \* blazeDB.addResult (490)
         added == AddResult(savedStats.storage, newResult, failing)
     IN  /\ predictionHistory' = savedPrediction.predictions
         /\ IF savedPrediction.threw
            THEN UNCHANGED <<gameStats, storage, results, isAnalyzing,
                             timers, lastPredictedColor>>
            ELSE /\ gameStats' = IF scored THEN newStats ELSE gameStats
                 /\ IF savedStats.threw
                    THEN UNCHANGED <<storage, results, isAnalyzing, timers,
                                     lastPredictedColor>>
                    ELSE /\ results' = updatedResults
                         /\ RunAnalysis(updatedResults)
                         /\ storage' = added.storage
                         /\ lastPredictedColor' =
                              IF added.threw THEN lastPredictedColor
                              ELSE IF currentSignal # Null
                                      /\ "color" \in DOMAIN currentSignal
                                   THEN currentSignal.color ELSE NoColor
  /\ UNCHANGED <<patterns, currentPrediction, currentSignal, nextEntry,
                 now, predictions, passes, latestSync, failing, received>>

\* what fetchHistoricalData(limit) returns: limit + 1 outcomes, drawn anew
FetchedLogs ==
  {Rep(<<"red", b>>, FetchLimit + 1) : b \in {"red", "black"}}

\* syncData: with a cached sync syncWithTipMiner reports no new results
\* and nothing here changes; without one it caches the sync and reports
\* new results, the log is replaced by the fetched outcomes, and the
\* auto-analysis effect runs. The cached sync lives 5 minutes, longer
\* than the runs looked at
SyncData(newData) ==
  /\ ~latestSync
  /\ Len(timers) < MaxTimers
  /\ latestSync' = TRUE
  /\ results' = newData
  /\ RunAnalysis(newData)
  \* blazeDB.saveResults(newData)
  /\ storage' = SaveResults(storage, newData, failing).storage
  /\ UNCHANGED <<patterns, currentPrediction, currentSignal, nextEntry,
                 gameStats, lastPredictedColor, predictionHistory, now,
                 predictions, passes, arrivals, failing, received>>

\* time passes
Tick ==
  /\ now < MaxClock
  /\ now' = now + 1
  /\ UNCHANGED <<results, patterns, currentPrediction, currentSignal,
                 nextEntry, isAnalyzing, gameStats, lastPredictedColor,
                 predictionHistory, timers, predictions, passes, arrivals, latestSync,
                 storage, failing, received>>

(***************************************************************************)
(* The component, started on a saved log.                                  *)
(***************************************************************************)
InitLogs ==
  {Rep(<<"red">>, 9), Rep(<<"red", "black">>, 9), Rep(<<"black", "black", "red">>, 5)}

Init == InitWith(InitLogs)

Next ==
  \/ RunAnalysisClick
  \/ \E r \in 1..MaxRand : AnalysisTimeout(r)
  \/ \E color \in Colors : AddNewResult(color)
  \/ Tick

Spec == Init /\ [][Next]_vars

(***************************************************************************)
(* The component with the clock and Math.random() held fixed: outcome      *)
(* arrivals, analysis passes and manual re-analyses.                       *)
(***************************************************************************)
InitScore == InitWith(InitLogs)

NextScore ==
  \/ RunAnalysisClick
  \/ AnalysisTimeout(1)
  \/ \E color \in Colors : AddNewResult(color)

SpecScore == InitScore /\ [][NextScore]_vars

\* the oldest pending setTimeout callback leaves the timer queue: of the
\* steps of the component those of AnalysisTimeout, and possible whenever
\* a callback is pending
TimerFires == timers # <<>> /\ timers' = Tail(timers)

\* arrivals of red and black outcomes, analysis passes and manual
\* re-analyses, with every pending setTimeout callback run in the end:
\* the timers of the event loop fire
InitLive == InitWith({Rep(<<"red">>, 9), Rep(<<"red", "black">>, 9)})

NextLive ==
  \/ RunAnalysisClick
  \/ AnalysisTimeout(1)
  \/ \E color \in {"red", "black"} : AddNewResult(color)

SpecLive == InitLive /\ [][NextLive]_vars /\ WF_timers(TimerFires)

(***************************************************************************)
(* The outcome log under arrivals, data syncs and analysis passes.         *)
(***************************************************************************)
InitLog == InitWith(InitLogs)

NextLog ==
  \/ AnalysisTimeout(1)
  \/ \E color \in {"red", "black"} : AddNewResult(color)
  \/ \E newData \in FetchedLogs : SyncData(newData)

SpecLog == InitLog /\ [][NextLog]_vars

(***************************************************************************)
(* The component over a localStorage whose calls may throw: outcome        *)
(* arrivals and analysis passes.                                           *)
(***************************************************************************)
StoreLogs == {Rep(<<"red">>, 9), Rep(<<"red", "black">>, 9)}

InitStore == InitStoring(StoreLogs, SUBSET StorageCalls)

NextStore ==
  \/ AnalysisTimeout(1)
  \/ \E color \in {"red", "black"} : AddNewResult(color)

SpecStore == InitStore /\ [][NextStore]_vars

(***************************************************************************)
(* The component started on long saved logs, up to a full storage:         *)
(* outcome arrivals and analysis passes.                                   *)
(***************************************************************************)
\* saved logs of one colour: one outcome short of what addNewResult
\* keeps in memory, just that many, one short of what addResult keeps in
\* the storage, and just that many
CapLogs ==
  {Rep(<<"red">>, n) :
     n \in {199, 200, MaxStoredResults - 1, MaxStoredResults}}

InitCap == InitWith(CapLogs)

NextCap ==
  \/ AnalysisTimeout(1)
  \/ \E color \in {"red", "black"} : AddNewResult(color)

SpecCap == InitCap /\ [][NextCap]_vars

(***************************************************************************)
(* convertResult and validateBlazeResult over what TipMiner may send.      *)
(* Nothing in the repository calls either of them: fetchHistoricalData     *)
(* makes its outcomes itself and syncData puts them in the log as they     *)
(* come.                                                                   *)
(***************************************************************************)
InitReceive == InitWith({<<>>})

\* a result of TipMiner is converted and the outcome validated
ReceiveResult(tipMinerResult) ==
  /\ received = Null
  /\ \E result \in {ConvertResult(tipMinerResult)} :
       received' = [raw |-> tipMinerResult, result |-> result,
                    valid |-> ValidateBlazeResult(result)]
  /\ UNCHANGED <<results, patterns, currentPrediction, currentSignal,
                 nextEntry, isAnalyzing, gameStats, lastPredictedColor,
                 predictionHistory, timers, now, predictions, passes,
                 arrivals, latestSync, storage, failing>>

NextReceive == \E tipMinerResult \in TipMinerResults : ReceiveResult(tipMinerResult)

SpecReceive == InitReceive /\ [][NextReceive]_vars

(***************************************************************************)
(* One analysis pass over each log of a family of logs: analyzePatterns,   *)
(* generatePredictions and generateSignal as functions of the log.         *)
(***************************************************************************)
\* the logs of up to MaxReps runs of up to MaxRun outcomes of one colour,
\* each ended by one outcome of another, with an unfinished run of up to
\* MaxRunTail outcomes at the end
RunLogs ==
  {Rep([i \in 1..(k + 1) |-> IF i <= k THEN a ELSE b], m * (k + 1) + j) :
     a \in Colors, b \in Colors, k \in 1..MaxRun, m \in 1..MaxReps,
     j \in 0..MaxRunTail}

\* the logs of MaxLong outcomes that repeat a word of one or two colours
LongLogs ==
  {Rep(<<a, b>>, MaxLong) : a \in Colors, b \in Colors}

\* the logs of runs, the logs of up to MaxShort red and black outcomes,
\* the logs of up to MaxTri outcomes of the three colours, and the logs
\* that repeat a word of up to MaxPeriod red and black outcomes MaxBody
\* outcomes long and end with up to MaxSuffix free outcomes
LogInputs ==
  RunLogs \cup LongLogs \cup
  LogsUpTo({"red", "black"}, MaxShort)
    \cup LogsUpTo(Colors, MaxTri)
    \cup {Rep([i \in 1..Len(w) |-> w[i].color], MaxBody) \o x :
            w \in LogsUpTo({"red", "black"}, MaxPeriod) \ {<<>>},
            x \in LogsUpTo(Colors, MaxSuffix)}

InitPass == InitWith(LogInputs)

NextPass == AnalysisTimeout(1)

SpecPass == InitPass /\ [][NextPass]_vars

(***************************************************************************)
(* Analysis passes run again and again over one log, by the analysis       *)
(* button, as time passes.                                                 *)
(***************************************************************************)
\* the logs of up to MaxWord outcomes, the empty log included, and the
\* logs of MaxRerun outcomes that repeat a word of up to MaxPeriod red
\* and black outcomes or of up to MaxWord outcomes of the three colours
RerunLogs ==
  LogsUpTo(Colors, MaxWord) \cup
  {Rep([i \in 1..Len(w) |-> w[i].color], MaxRerun) :
     w \in (LogsUpTo({"red", "black"}, MaxPeriod)
             \cup LogsUpTo(Colors, MaxWord)) \ {<<>>}}

InitRerun == InitWith(RerunLogs)

NextRerun ==
  \/ RunAnalysisClick
  \/ \E r \in 1..MaxRand : AnalysisTimeout(r)
  \/ Tick

SpecRerun == InitRerun /\ [][NextRerun]_vars

(***************************************************************************)
(* generateSignal over enumerated candidate lists: lists of up to          *)
(* MaxCandidates candidates, sorted by confidence as generatePredictions   *)
(* returns them.                                                           *)
(***************************************************************************)
Candidates ==
  [color : Colors,
   confidence : {Num(60), Num(70), Num(82), Num(90)},
   algorithm : {"Candidate"},
   reasoning : {<<>>},
   entryTiming : {"NEXT", "WAIT_1", "WAIT_2"}]

InitSignal ==
  /\ InitWith({<<>>})

\* one more candidate, of no greater confidence than the last
AddCandidate ==
  /\ currentSignal = Null
  /\ Len(predictions) < MaxCandidates
  /\ \E c \in Candidates :
       /\ predictions # <<>> =>
            FGe(predictions[Len(predictions)].confidence, c.confidence)
       /\ predictions' = Append(predictions, c)
  /\ UNCHANGED <<results, patterns, currentPrediction, currentSignal,
                 nextEntry, isAnalyzing, gameStats, lastPredictedColor,
                 predictionHistory, timers, now, passes, arrivals, latestSync,
                 storage, failing, received>>

\* const signal = generateSignal(predictions); setCurrentSignal(signal);
\* setNextEntry(signal.entryTiming)
Aggregate ==
  /\ currentSignal = Null
  /\ currentSignal' = GenerateSignal(predictions, now)
  /\ nextEntry' = currentSignal'.entryTiming
  /\ UNCHANGED <<results, patterns, currentPrediction, isAnalyzing,
                 gameStats, lastPredictedColor, predictionHistory, timers,
                 now, predictions, passes, arrivals, latestSync,
                 storage, failing, received>>

NextSignal == AddCandidate \/ Aggregate

SpecSignal == InitSignal /\ [][NextSignal]_vars

(***************************************************************************)
(* Properties of the pattern miner.                                        *)
(***************************************************************************)
\* the colours of the log
LogColors == [i \in 1..Len(results) |-> results[i].color]

\* the positions of the log at which the colours of s start and are
\* followed by one more colour
Occurrences(s) ==
  {i \in 1..(Len(LogColors) - Len(s)) :
     \A k \in 1..Len(s) : LogColors[i + k - 1] = s[k]}

\* how many of the windows occ of s colour c follows
Followers(s, occ, c) ==
  Cardinality({i \in occ : LogColors[i + Len(s)] = c})

\* the windows of 3 to 10 colours of the log that a colour follows
Windows ==
  UNION {{SubSeq(LogColors, i, i + n - 1) : i \in 1..(Len(LogColors) - n)} :
           n \in 3..10}

\* each window with the number of its occurrences and the number of times
\* its most frequent follower follows it
WindowStats ==
  UNION {{[sequence |-> s,
           count |-> Cardinality(occ),
           best |-> CHOOSE m \in {Followers(s, occ, c) : c \in Colors} :
                      \A c \in Colors : Followers(s, occ, c) <= m] :
            occ \in {Occurrences(s)}} : s \in Windows}

\* the windows that pass the filter of the miner
QualifyingWindows ==
  {w \in WindowStats : w.count >= 5 /\ w.best * 100 > 65 * w.count}

\* the sequences of the retained patterns
Retained == {patterns[i].sequence : i \in 1..Len(patterns)}

\* C1: after a mining pass every retained pattern has a sequence of 3 to
\* 10 colours, at least 5 occurrences and an accuracy above 65
C1_RetainedPatterns ==
  \A i \in 1..Len(patterns) :
    /\ Len(patterns[i].sequence) >= 3
    /\ Len(patterns[i].sequence) <= 10
    /\ patterns[i].frequency >= 5
    /\ patterns[i].accuracy.n > 65 * patterns[i].accuracy.d

\* a pass retained patterns and left out a window seen 5 times or more
\* for its accuracy
C1_Witness ==
  /\ passes # <<>>
  /\ Len(patterns) > 0
  /\ \E w \in WindowStats :
       w.count >= 5 /\ w.best * 100 <= 65 * w.count /\ w.sequence \notin Retained

\* C2: the mined list has at most 30 patterns, in non-increasing order
\* of accuracy, and no pattern that passed the filter and was cut has an
\* accuracy above that of a retained one
C2_TopThirtySorted ==
  passes # <<>> =>
    /\ Len(patterns) <= 30
    /\ \A i \in 1..(Len(patterns) - 1) :
         patterns[i].accuracy.n * patterns[i + 1].accuracy.d
           >= patterns[i + 1].accuracy.n * patterns[i].accuracy.d
    /\ \A w \in {x \in QualifyingWindows : x.sequence \notin Retained} :
         \A i \in 1..Len(patterns) :
           patterns[i].accuracy.n * w.count >= 100 * w.best * patterns[i].accuracy.d

\* the truncation cut a qualifying pattern, and the retained ones are not
\* all of one accuracy
C2_Witness ==
  /\ passes # <<>>
  /\ Len(patterns) = 30
  /\ \E w \in QualifyingWindows : w.sequence \notin Retained
  /\ patterns[1].accuracy # patterns[30].accuracy

\* C3: a retained pattern's frequency is the number of its windows in
\* the log that a colour follows, its nextPrediction is the colour that
\* most often follows them, and its accuracy is that colour's share of
\* them, times 100
C3_PatternStatistics ==
  \A i \in 1..Len(patterns) :
    \A p \in {patterns[i]} : \A occ \in {Occurrences(p.sequence)} :
      /\ p.frequency = Cardinality(occ)
      /\ \A c \in Colors \ {p.nextPrediction} :
           Followers(p.sequence, occ, c) < Followers(p.sequence, occ, p.nextPrediction)
      /\ p.accuracy.n * p.frequency
           = 100 * Followers(p.sequence, occ, p.nextPrediction) * p.accuracy.d

\* a retained pattern that two different colours followed
C3_Witness ==
  /\ passes # <<>>
  /\ \E i \in 1..Len(patterns) :
       /\ patterns[i].frequency > 5
       /\ patterns[i].accuracy.n < 100 * patterns[i].accuracy.d
       /\ patterns[i].nextPrediction = "black"

(***************************************************************************)
(* Properties of the analysis pass.                                        *)
(***************************************************************************)
\* two signals agree in action, colour, confidence, strategy, entry delay
\* and rounds to wait
SameSignal(a, b) ==
  /\ a.action = b.action
  /\ ("color" \in DOMAIN a) = ("color" \in DOMAIN b)
  /\ "color" \in DOMAIN a /\ "color" \in DOMAIN b => a.color = b.color
  /\ a.confidence = b.confidence
  /\ a.strategy = b.strategy
  /\ a.entryTiming = b.entryTiming
  /\ a.roundsToWait = b.roundsToWait

\* the last two passes read the same log
SameLogTwice == Len(passes) = 2 /\ passes[1].data = passes[2].data

Consensus == {i \in 1..Len(predictions) : predictions[i].color = predictions[1].color}

\* a common denominator of the confidences
RECURSIVE CommonDen(_)
CommonDen(S) ==
  IF S = {} THEN 1
  ELSE LET i == CHOOSE x \in S : TRUE
       IN  predictions[i].confidence.d * CommonDen(S \ {i})

\* the sum of the confidences of the candidates S, times the denominator D
RECURSIVE SumTimes(_, _)
SumTimes(S, D) ==
  IF S = {} THEN 0
  ELSE LET i == CHOOSE x \in S : TRUE
       IN  predictions[i].confidence.n * (D \div predictions[i].confidence.d)
             + SumTimes(S \ {i}, D)

\* the mean confidence of the consensus candidates is at least k
AvgAtLeast(k) ==
  \A D \in {CommonDen(Consensus)} :
    SumTimes(Consensus, D) >= k * Cardinality(Consensus) * D

\* c is the mean confidence of the consensus candidates
IsAvg(c) ==
  \A D \in {CommonDen(Consensus)} :
    c.n * Cardinality(Consensus) * D = c.d * SumTimes(Consensus, D)

\* C5: for the empty candidate list the signal is WAIT, confidence 0,
\* "Insufficient Data", no colour, entry NEXT, 0 rounds to wait
C5_EmptyCandidates ==
  currentSignal # Null /\ predictions = <<>> =>
    /\ currentSignal.action = "WAIT"
    /\ currentSignal.confidence = Num(0)
    /\ currentSignal.strategy = "Insufficient Data"
    /\ "color" \notin DOMAIN currentSignal
    /\ currentSignal.entryTiming = "NEXT"
    /\ currentSignal.roundsToWait = 0

\* generateSignal has run on the empty list
C5_Witness == currentSignal # Null /\ predictions = <<>>

\* C6: for a non-empty sorted candidate list, with avg the mean
\* confidence of the candidates of the first one's colour: BET on that
\* colour, "High Confidence", if avg >= 75 and two or more such
\* candidates; else BET on it, "Medium Confidence", if avg >= 65; else
\* WAIT, "Low Confidence", no colour, NEXT, 0 rounds. The signal's
\* confidence is avg, and it has a colour exactly when it is a BET
C6_Thresholds ==
  currentSignal # Null /\ predictions # <<>> =>
    LET high == AvgAtLeast(75) /\ Cardinality(Consensus) >= 2
        medium == ~high /\ AvgAtLeast(65)
    IN  /\ high =>
             /\ currentSignal.action = "BET"
             /\ currentSignal.strategy = "High Confidence"
        /\ medium =>
             /\ currentSignal.action = "BET"
             /\ currentSignal.strategy = "Medium Confidence"
        /\ ~high /\ ~medium =>
             /\ currentSignal.action = "WAIT"
             /\ currentSignal.strategy = "Low Confidence"
             /\ currentSignal.entryTiming = "NEXT"
             /\ currentSignal.roundsToWait = 0
        /\ IsAvg(currentSignal.confidence)
        /\ ("color" \in DOMAIN currentSignal) = (currentSignal.action = "BET")
        /\ currentSignal.action = "BET" => currentSignal.color = predictions[1].color

\* two candidates of one colour whose confidences average exactly 75
C6_Witness ==
  /\ currentSignal # Null
  /\ Len(predictions) = 3
  /\ Cardinality(Consensus) = 2
  /\ currentSignal.confidence = Num(75)
  /\ currentSignal.strategy = "High Confidence"

\* how many consensus candidates have entry timing t
TimingVotes(t) == Cardinality({i \in Consensus : predictions[i].entryTiming = t})

\* C7 as claimed: the entry delay of a BET signal is the most frequent
\* delay of the consensus candidates and, of several most frequent ones,
\* the first in the order NEXT, WAIT_1, WAIT_2
C7_TieToFirstInOrder ==
  currentSignal # Null /\ predictions # <<>> /\ currentSignal.action = "BET" =>
    \E k \in 1..3 :
      /\ currentSignal.entryTiming = TimingOrder[k]
      /\ \A j \in 1..3 : TimingVotes(TimingOrder[j]) <= TimingVotes(TimingOrder[k])
      /\ \A j \in 1..(k - 1) : TimingVotes(TimingOrder[j]) < TimingVotes(TimingOrder[k])

(***************************************************************************)
(* Properties of the heuristics.                                           *)
(***************************************************************************)
Algorithms ==
  {"Pattern Sequence", "Frequency Gap", "Streak Reversal", "White Prediction",
   "Alternating Pattern"}

\* the places of the candidates of one heuristic in the candidate list
By(algorithm) == {k \in 1..Len(predictions) : predictions[k].algorithm = algorithm}

\* C8: the candidate list holds at most one candidate of each of the five
\* heuristics, is what the last 15 outcomes and the pattern list give,
\* and is in non-increasing order of confidence
C8_CandidateList ==
  passes # <<>> =>
    /\ \A k \in 1..Len(predictions) : predictions[k].algorithm \in Algorithms
    /\ \A a \in Algorithms : Cardinality(By(a)) <= 1
    /\ predictions = GeneratePredictions(SliceLast(results, 15), patterns)
    /\ \A k \in 1..(Len(predictions) - 1) :
         predictions[k].confidence.n * predictions[k + 1].confidence.d
           >= predictions[k + 1].confidence.n * predictions[k].confidence.d

\* a log of more than 15 outcomes, all of the last 15 of one colour, that
\* gave three candidates
C8_Witness ==
  /\ passes # <<>>
  /\ Len(results) > 15
  /\ Len(predictions) >= 3
  /\ By("Streak Reversal") # {}
  /\ \A i \in 1..Len(results) : results[i].color = results[1].color

\* the last 15 colours of the log
Tail15 == SliceLast(LogColors, 15)

\* the patterns whose sequence without its last colour is the last len
\* colours of the tail
MatchAt(len) ==
  {i \in 1..Len(patterns) :
     SubSeq(patterns[i].sequence, 1, Len(patterns[i].sequence) - 1)
       = SliceLast(Tail15, len)}

\* those of them with an accuracy above 70
GoodAt(len) ==
  {i \in MatchAt(len) : patterns[i].accuracy.n > 70 * patterns[i].accuracy.d}

\* C9: Pattern Sequence emits exactly when for some len of 5, 4, 3 a
\* pattern matching the last len colours has accuracy > 70; the candidate
\* comes from the largest such len and a matching pattern of highest
\* accuracy there, with its nextPrediction as colour, its accuracy as
\* confidence, and entry NEXT above 85, WAIT_1 above 75, else WAIT_2
C9_PatternSequence ==
  passes # <<>> =>
    /\ (By("Pattern Sequence") # {}) = (\E len \in 3..5 : GoodAt(len) # {})
    /\ \A k \in By("Pattern Sequence") :
         \E len \in 3..5 :
           /\ \A longer \in (len + 1)..5 : GoodAt(longer) = {}
           /\ \E i \in GoodAt(len) :
                \A p \in {patterns[i]} :
                  /\ \A j \in MatchAt(len) :
                       p.accuracy.n * patterns[j].accuracy.d
                         >= patterns[j].accuracy.n * p.accuracy.d
                  /\ predictions[k].color = p.nextPrediction
                  /\ predictions[k].confidence = p.accuracy
                  /\ predictions[k].entryTiming =
                       IF p.accuracy.n > 85 * p.accuracy.d THEN "NEXT"
                       ELSE IF p.accuracy.n > 75 * p.accuracy.d THEN "WAIT_1"
                       ELSE "WAIT_2"

\* Pattern Sequence emitted from a len below one at which a pattern
\* matched with too low an accuracy
C9_Witness ==
  /\ passes # <<>>
  /\ By("Pattern Sequence") # {}
  /\ \E len \in 3..5 : GoodAt(len) # {} /\ \E longer \in (len + 1)..5 :
       MatchAt(longer) # {} /\ GoodAt(longer) = {}

\* the last 10 colours of the log
Tail10 == SliceLast(LogColors, 10)

\* the colours that do not occur among them
Missing == {c \in Colors : \A i \in 1..Len(Tail10) : Tail10[i] # c}

\* C10: Frequency Gap emits exactly when the last 10 outcomes are at
\* least 8 and lack one of the three colours; its candidate is a lacking
\* colour with confidence 78 and entry NEXT; with fewer than 8 outcomes
\* in the log it emits none
C10_FrequencyGap ==
  passes # <<>> =>
    /\ (By("Frequency Gap") # {}) = (Len(Tail10) >= 8 /\ Missing # {})
    /\ \A k \in By("Frequency Gap") :
         /\ predictions[k].color \in Missing
         /\ predictions[k].confidence = Num(78)
         /\ predictions[k].entryTiming = "NEXT"
    /\ Len(results) < 8 => By("Frequency Gap") = {}

\* Frequency Gap emitted on a log of exactly 8 outcomes
C10_Witness ==
  /\ passes # <<>>
  /\ Len(results) = 8
  /\ By("Frequency Gap") # {}

\* the length of the run of one colour that ends the last 15 outcomes
TrailingRun ==
  Cardinality({k \in 1..Len(Tail15) :
     \A i \in (Len(Tail15) - k + 1)..Len(Tail15) : Tail15[i] = Tail15[Len(Tail15)]})

\* C11: Streak Reversal emits exactly when the run that ends the tail is
\* of 4 or more and not of white; its candidate is black after red and
\* red after black, with confidence min(88, 65 + 4 * run) and entry NEXT
\* for a run of 6 or more, else WAIT_1
C11_StreakReversal ==
  passes # <<>> =>
    /\ (By("Streak Reversal") # {}) =
         (TrailingRun >= 4 /\ Tail15[Len(Tail15)] # "white")
    /\ \A k \in By("Streak Reversal") :
         /\ Tail15[Len(Tail15)] = "red" => predictions[k].color = "black"
         /\ Tail15[Len(Tail15)] = "black" => predictions[k].color = "red"
         /\ predictions[k].confidence =
              Num(IF 65 + 4 * TrailingRun < 88 THEN 65 + 4 * TrailingRun ELSE 88)
         /\ predictions[k].entryTiming =
              IF TrailingRun >= 6 THEN "NEXT" ELSE "WAIT_1"

\* Streak Reversal emitted on a run of 5, below the cap of 88
C11_Witness ==
  /\ passes # <<>>
  /\ TrailingRun = 5
  /\ \E k \in By("Streak Reversal") :
       predictions[k].confidence = Num(85) /\ predictions[k].entryTiming = "WAIT_1"

\* the rounds since the last white outcome of the log, the length of the
\* log if it has none
WhiteGapOfLog ==
  LET n == Len(LogColors)
      whites == {k \in 0..(n - 1) : LogColors[n - k] = "white"}
  IN  IF whites = {} THEN n ELSE CHOOSE k \in whites : \A j \in whites : k <= j

\* C12 as claimed: when 40 or more rounds have passed since the last
\* white, White Prediction emits white with confidence
\* min(85, 60 + 2 * (gap - 40)) and entry NEXT for a gap of 60 or more,
\* else WAIT_1; for a log whose last 45 outcomes have no white that is
\* confidence 70 and WAIT_1
C12_WhiteGapFires ==
  passes # <<>> /\ WhiteGapOfLog >= 40 =>
    \E k \in By("White Prediction") :
      /\ predictions[k].color = "white"
      /\ predictions[k].confidence =
           Num(IF 60 + 2 * (WhiteGapOfLog - 40) < 85
               THEN 60 + 2 * (WhiteGapOfLog - 40) ELSE 85)
      /\ predictions[k].entryTiming =
           IF WhiteGapOfLog >= 60 THEN "NEXT" ELSE "WAIT_1"

\* the last 6 colours of the log
Tail6 == SliceLast(LogColors, 6)

\* C13: when the last 6 outcomes, 4 or more of them, alternate between
\* red and black, Alternating Pattern emits one candidate: the one of red
\* and black that the last outcome is not, confidence 72, entry NEXT;
\* when two neighbours among them are equal, or they are fewer than 4,
\* it emits none
C13_AlternatingPattern ==
  passes # <<>> =>
    LET redBlack == \A i \in 1..Len(Tail6) : Tail6[i] \in {"red", "black"}
        repeats == \E i \in 2..Len(Tail6) : Tail6[i] = Tail6[i - 1]
    IN  /\ Len(Tail6) >= 4 /\ redBlack /\ ~repeats =>
             /\ Cardinality(By("Alternating Pattern")) = 1
             /\ \A k \in By("Alternating Pattern") :
                  /\ predictions[k].color \in {"red", "black"}
                  /\ predictions[k].color # Tail6[Len(Tail6)]
                  /\ predictions[k].confidence = Num(72)
                  /\ predictions[k].entryTiming = "NEXT"
        /\ repeats \/ Len(Tail6) < 4 => By("Alternating Pattern") = {}

\* Alternating Pattern emitted on 6 alternating outcomes that follow two
\* equal ones
C13_Witness ==
  /\ passes # <<>>
  /\ Len(results) >= 8
  /\ results[Len(results) - 6].color = results[Len(results) - 7].color
  /\ By("Alternating Pattern") # {}
  /\ \A i \in 1..Len(Tail6) : Tail6[i] \in {"red", "black"}

\* C14: a pass over a log of fewer than 4 outcomes, the empty log
\* included, gives no pattern, no candidate, and the WAIT signal
\* "Insufficient Data"
C14_ShortLog ==
  \A i \in 1..Len(passes) :
    Len(passes[i].data) < 4 =>
      /\ passes[i].predictions = <<>>
      /\ passes[i].signal.action = "WAIT"
      /\ passes[i].signal.strategy = "Insufficient Data"

\* a pass was made over the empty log
C14_Witness ==
  /\ passes # <<>>
  /\ results = <<>>
  /\ currentSignal # Null
  /\ currentSignal.strategy = "Insufficient Data"

(***************************************************************************)
(* Properties of the outcome scorer.                                       *)
(***************************************************************************)
\* a step in which an outcome arrives
Arrival == arrivals' = arrivals + 1

\* the outcome that arrives in the step
NewOutcome == results'[Len(results')]

\* the outcome that arrives is scored: a colour was predicted before and
\* the signal is a BET
ScoredArrival ==
  /\ Arrival
  /\ lastPredictedColor # NoColor
  /\ currentSignal # Null
  /\ currentSignal.action = "BET"

\* C15: when an outcome is scored, totalPredictions grows by 1; on a hit
\* correctPredictions, greens and currentStreak grow by 1, reds stays and
\* profit grows by 14; on a miss currentStreak becomes 0, reds grows by 1,
\* correctPredictions and greens stay and profit falls by 10; bestStreak
\* becomes the greater of itself and the new currentStreak; accuracy
\* becomes correctPredictions / totalPredictions * 100
C15_ScoringStep ==
  [][ScoredArrival =>
       LET hit == NewOutcome.color = lastPredictedColor
           old == gameStats
           new == gameStats'
       IN  /\ new.totalPredictions = old.totalPredictions + 1
           /\ hit =>
                /\ new.correctPredictions = old.correctPredictions + 1
                /\ new.greens = old.greens + 1
                /\ new.currentStreak = old.currentStreak + 1
                /\ new.reds = old.reds
                /\ new.profit = old.profit + 14
           /\ ~hit =>
                /\ new.currentStreak = 0
                /\ new.reds = old.reds + 1
                /\ new.correctPredictions = old.correctPredictions
                /\ new.greens = old.greens
                /\ new.profit = old.profit - 10
           /\ new.bestStreak =
                (IF old.bestStreak > new.currentStreak
                 THEN old.bestStreak ELSE new.currentStreak)
           /\ new.accuracy.n * new.totalPredictions
                = 100 * new.correctPredictions * new.accuracy.d]_vars

\* a hit and then a miss were scored
C15_Witness ==
  /\ gameStats.totalPredictions = 2
  /\ gameStats.greens = 1
  /\ gameStats.reds = 1
  /\ gameStats.currentStreak = 0
  /\ gameStats.bestStreak = 1
  /\ gameStats.profit = 4

\* C16: from all-zero stats on, greens = correctPredictions, greens + reds
\* = totalPredictions, 0 <= currentStreak <= bestStreak <=
\* correctPredictions, profit = 14 * greens - 10 * reds, and accuracy =
\* correctPredictions / totalPredictions * 100 once an outcome was scored
C16_StatsInvariant ==
  /\ gameStats.greens = gameStats.correctPredictions
  /\ gameStats.greens + gameStats.reds = gameStats.totalPredictions
  /\ 0 <= gameStats.currentStreak
  /\ gameStats.currentStreak <= gameStats.bestStreak
  /\ gameStats.bestStreak <= gameStats.correctPredictions
  /\ gameStats.profit = 14 * gameStats.greens - 10 * gameStats.reds
  /\ gameStats.totalPredictions > 0 =>
       gameStats.accuracy.n * gameStats.totalPredictions
         = 100 * gameStats.correctPredictions * gameStats.accuracy.d

\* a miss and then a hit were scored
C16_Witness ==
  /\ gameStats.totalPredictions = 2
  /\ gameStats.reds = 1
  /\ gameStats.currentStreak = 1
  /\ gameStats.accuracy = Num(50)

\* C17 as claimed: the stats change only when an outcome arrives, and
\* totalPredictions grows by 1 with every outcome that arrives while the
\* signal is a BET, and by 0 with every other outcome
C17_OncePerBetOutcome ==
  [][/\ gameStats' # gameStats => Arrival
     /\ Arrival =>
          gameStats'.totalPredictions = gameStats.totalPredictions +
            (IF currentSignal # Null /\ currentSignal.action = "BET"
             THEN 1 ELSE 0)]_vars

\* C18 as claimed: when an outcome is scored, the correctness written to
\* the outcome and to the settlement record is whether the outcome has
\* the colour of the signal current before it arrived, and the record
\* has the colour, confidence and entry delay of that signal
C18_ScoresCurrentSignal ==
  [][ScoredArrival =>
       LET record == predictionHistory'[Len(predictionHistory')]
           correct == NewOutcome.color = currentSignal.color
       IN  /\ NewOutcome.wasCorrect = correct
           /\ record.wasCorrect = correct
           /\ record.predictedColor = currentSignal.color
           /\ record.confidence = currentSignal.confidence
           /\ record.entryTiming = currentSignal.entryTiming]_vars

\* C19: an outcome that arrives while there is no signal, or a WAIT
\* signal, is put at the end of the log with neither tag, the stats stay
\* and no settlement record is added
C19_UnscoredArrival ==
  [][Arrival /\ (currentSignal = Null \/ currentSignal.action = "WAIT") =>
       /\ Len(results') > 0
       /\ "predicted" \notin DOMAIN NewOutcome
       /\ "wasCorrect" \notin DOMAIN NewOutcome
       /\ gameStats' = gameStats
       /\ predictionHistory' = predictionHistory]_vars

\* the first pass gave a WAIT signal and an outcome has arrived since,
\* before any other pass
C19_Witness ==
  /\ arrivals = 1
  /\ Len(passes) = 1
  /\ passes[1].signal = currentSignal
  /\ currentSignal.action = "WAIT"
  /\ DOMAIN results[Len(results)] = {"color"}
  /\ gameStats = InitialStats
  /\ predictionHistory = <<>>

(***************************************************************************)
(* Properties of the outcome log.                                          *)
(***************************************************************************)
\* C20 as claimed: the log only grows at its end: after every step the
\* log before the step is the beginning of the log after it
C20_AppendOnly ==
  [][/\ Len(results') >= Len(results)
     /\ SubSeq(results', 1, Len(results)) = results]_vars

(***************************************************************************)
(* Properties of the scheduling of analysis passes.                        *)
(***************************************************************************)
\* C21 as claimed: no two passes in flight were started over the same log
\* snapshot, and no two passes in flight were started over different
\* snapshots of the log
C21_OnePassInFlight ==
  \A i \in 1..Len(timers) : \A j \in 1..Len(timers) :
    i # j => timers[i] # timers[j] /\ timers[i] = timers[j]

\* the signal an analysis pass over data writes
SignalOf(data) ==
  GenerateSignal(GeneratePredictions(data, AnalyzePatterns(data, now, 1)), now)

\* C22: passes complete in the order they were started, each writing its
\* signal over the one before; a pending pass is always followed by the
\* completion of a pass; and in the end, when outcomes have stopped
\* arriving, the current signal is and stays the signal of the final log
C22_PassesComplete ==
  /\ [][\/ timers' = timers
        \/ \E data \in {results'} : timers' = Append(timers, data)
        \/ /\ timers # <<>>
           /\ timers' = Tail(timers)
           /\ passes'[Len(passes')].data = Head(timers)
           /\ currentSignal' = passes'[Len(passes')].signal
           /\ currentSignal' = SignalOf(Head(timers))]_vars
  /\ (timers # <<>>) ~> (~isAnalyzing)
  /\ <>[](currentSignal = SignalOf(results))

\* two passes were in flight, over two logs that give different signals,
\* both have completed and the signal is that of the later log
C22_Witness ==
  /\ Len(passes) = 2
  /\ timers = <<>>
  /\ passes[1].data # passes[2].data
  /\ passes[1].signal # passes[2].signal
  /\ passes[2].data = results
  /\ Len(passes[2].data) = Len(passes[1].data) + 1
  /\ currentSignal = passes[2].signal

(***************************************************************************)
(* Properties of the heuristics taken together.                            *)
(***************************************************************************)
\* the heuristic is among those that emitted a candidate of the list
Fires(algorithm, candidates) ==
  \E k \in 1..Len(candidates) : candidates[k].algorithm = algorithm

\* C25 as claimed: among the logs of up to MaxTri outcomes of the three
\* colours (every content the last 6 outcomes can have) there is one on
\* which Streak Reversal and Alternating Pattern both emit a candidate in
\* one call of generatePredictions
C25_BothFire ==
  \E data \in LogsUpTo(Colors, MaxTri) :
    \E candidates \in {GeneratePredictions(data, <<>>)} :
      /\ Fires("Streak Reversal", candidates)
      /\ Fires("Alternating Pattern", candidates)

\* the colours among the last 6 outcomes
Tail6Colors == {Tail6[i] : i \in 1..Len(Tail6)}

\* C26 as claimed: the candidate of Alternating Pattern never has the
\* colour of the last outcome, and when the last 6 outcomes alternate
\* between exactly two colours, white or not, it has the one of the two
\* that the last outcome has not
C26_ContinuesAlternation ==
  passes # <<>> =>
    \A k \in By("Alternating Pattern") :
      /\ predictions[k].color # Tail6[Len(Tail6)]
      /\ Cardinality(Tail6Colors) = 2 =>
           predictions[k].color \in Tail6Colors \ {Tail6[Len(Tail6)]}

\* C28: in a pass every candidate has a confidence above 70; with one or
\* more candidates the signal is a BET of strategy "High Confidence" or
\* "Medium Confidence"; no signal has strategy "Low Confidence"; and the
\* signal is a WAIT exactly when there is no candidate
C28_NeverLowConfidence ==
  passes # <<>> =>
    /\ \A k \in 1..Len(predictions) :
         predictions[k].confidence.n > 70 * predictions[k].confidence.d
    /\ predictions # <<>> =>
         /\ currentSignal.action = "BET"
         /\ currentSignal.strategy \in {"High Confidence", "Medium Confidence"}
    /\ currentSignal.strategy # "Low Confidence"
    /\ (currentSignal.action = "WAIT") = (predictions = <<>>)

\* a pass whose only candidate has the lowest confidence a heuristic
\* gives, the 72 of Alternating Pattern, and whose signal is a BET
C28_Witness ==
  /\ passes # <<>>
  /\ Len(predictions) = 1
  /\ predictions[1].confidence = Num(72)
  /\ currentSignal.action = "BET"
  /\ currentSignal.strategy = "Medium Confidence"

\* the retained patterns with a sequence of 4, 5 or 6 colours
MatchablePatterns ==
  SelectSeq(patterns, LAMBDA p : Len(p.sequence) \in 4..6)

\* C30: in a pass over a log of 3 or more outcomes the candidate of
\* Pattern Sequence comes from a retained pattern with a sequence of 4,
\* 5 or 6 colours; no retained pattern of another length matches the
\* last 5, 4 or 3 outcomes; and without the patterns of other lengths
\* the candidate list and the signal are the same
C30_PatternLengths ==
  passes # <<>> /\ Len(results) >= 3 =>
    /\ \A k \in By("Pattern Sequence") :
         /\ Len(predictions[k].reasoning[2]) \in 4..6
         /\ \E i \in 1..Len(patterns) :
              patterns[i].sequence = predictions[k].reasoning[2]
    /\ \A len \in 3..5 : \A i \in MatchAt(len) :
         Len(patterns[i].sequence) \in 4..6
    /\ predictions = GeneratePredictions(results, MatchablePatterns)
    /\ currentSignal = GenerateSignal(GeneratePredictions(results, MatchablePatterns), now)

\* Pattern Sequence emitted in a pass that retained patterns of 3 colours
\* and of 7 or more besides those of 4 to 6
C30_Witness ==
  /\ passes # <<>>
  /\ By("Pattern Sequence") # {}
  /\ \E i \in 1..Len(patterns) : Len(patterns[i].sequence) = 3
  /\ \E i \in 1..Len(patterns) : Len(patterns[i].sequence) >= 7
  /\ \E i \in 1..Len(patterns) : Len(patterns[i].sequence) \in 4..6

(***************************************************************************)
(* Properties of the tags of the outcomes.                                 *)
(***************************************************************************)
\* the places of the log whose outcome has predicted = true
Predicted ==
  {i \in 1..Len(results) :
     "predicted" \in DOMAIN results[i] /\ results[i].predicted}

\* the places of the log whose outcome has the tag wasCorrect
Judged == {i \in 1..Len(results) : "wasCorrect" \in DOMAIN results[i]}

\* C29: from zero stats and an untagged log on, an outcome has the tag
\* wasCorrect exactly when it has predicted = true; the outcomes tagged
\* predicted are as many as totalPredictions and those tagged wasCorrect
\* = true as many as correctPredictions; and no step changes an outcome
\* that is in the log, tags included: an arrival adds one at the end
C29_TagsAndStats ==
  /\ [](/\ Judged = Predicted
        /\ Cardinality(Predicted) = gameStats.totalPredictions
        /\ Cardinality({i \in Judged : results[i].wasCorrect})
             = gameStats.correctPredictions)
  /\ [][/\ SubSeq(results', 1, Len(results)) = results
        /\ Len(results') = Len(results) + (IF Arrival THEN 1 ELSE 0)]_vars

\* three outcomes have arrived: the first untagged, then one tagged as a
\* miss and one tagged as a hit
C29_Witness ==
  /\ arrivals = 3
  /\ Cardinality(Predicted) = 2
  /\ Len(results) - 2 \notin Judged
  /\ ~results[Len(results) - 1].wasCorrect
  /\ results[Len(results)].wasCorrect
  /\ gameStats.totalPredictions = 2
  /\ gameStats.correctPredictions = 1

(***************************************************************************)
(* Properties of the persistence store.                                    *)
(***************************************************************************)
\* a settlement record, as addNewResult saves it
SomeRecord ==
  [predictedColor |-> "red", actualColor |-> "black", confidence |-> Num(72),
   algorithm |-> "Alternating Pattern", wasCorrect |-> FALSE,
   entryTiming |-> "NEXT"]

\* no method of blazeDB throws when the calls in fails throw, and a load
\* that fails gives the empty list, null for the stats
ReturnsNormally(fails) ==
  /\ ~SaveResults(storage, results, fails).threw
  /\ ~LoadResults(storage, fails).threw
  /\ ~AddResult(storage, [color |-> "red"], fails).threw
  /\ ~SavePatterns(storage, patterns, fails).threw
  /\ ~LoadPatterns(storage, fails).threw
  /\ ~SaveStats(storage, gameStats, fails).threw
  /\ ~LoadStats(storage, fails).threw
  /\ ~SavePrediction(predictionHistory, SomeRecord, fails).threw
  /\ ~LoadPredictions(predictionHistory, fails).threw
  /\ "getItem" \in fails =>
       /\ LoadResults(storage, fails).value = <<>>
       /\ LoadPatterns(storage, fails).value = <<>>
       /\ LoadStats(storage, fails).value = Null
       /\ LoadPredictions(predictionHistory, fails).value = <<>>

\* C23: whichever calls of localStorage throw, every method of blazeDB
\* returns without throwing, a failed load gives the empty list or null;
\* an outcome that arrives is put at the end of the log and scored as the
\* state in memory says, and a pass that completes writes the signal of
\* the log it was started over
C23_StoreFailure ==
  /\ [](\A fails \in SUBSET StorageCalls : ReturnsNormally(fails))
  /\ [][/\ Arrival =>
             /\ Len(results') > 0
             /\ SubSeq(results', 1, Len(results') - 1) = SliceLast(results, 199)
             /\ NewOutcome.color \in Colors
             /\ ("predicted" \in DOMAIN NewOutcome)
                  = IsScored(lastPredictedColor, currentSignal)
             /\ gameStats' =
                  IF IsScored(lastPredictedColor, currentSignal)
                  THEN NewStats(gameStats, NewOutcome.color = lastPredictedColor)
                  ELSE gameStats
        /\ timers # <<>> /\ timers' = Tail(timers) =>
             /\ currentSignal' = SignalOf(Head(timers))
             /\ ~isAnalyzing'
             /\ results' = results /\ gameStats' = gameStats]_vars

\* every call of localStorage throws, and yet a pass has completed and
\* two outcomes that arrived were scored; nothing of it was saved
C23_Witness ==
  /\ failing = StorageCalls
  /\ passes # <<>>
  /\ gameStats.totalPredictions = 2
  /\ Len(results) = Len(storage.results) + 3
  /\ storage.stats = Null
  /\ storage.patterns = <<>>
  /\ predictionHistory = <<>>

\* C27: an outcome that arrives leaves in memory the last 199 outcomes
\* held before it, in their order, and itself after them, 200 at most;
\* the stored list is never longer than 1000, an arrival leaves in it
\* the last 1000 of what it held with the new outcome added, and its end
\* is the outcomes that arrived, in their order
C27_LogCaps ==
  /\ [](/\ arrivals > 0 => Len(results) <= 200
        /\ Len(storage.results) <= MaxStoredResults
        /\ SliceLast(storage.results, arrivals) = SliceLast(results, arrivals))
  /\ [][Arrival =>
          /\ results' = SliceLast(results, 199) \o <<NewOutcome>>
          /\ storage'.results =
               SliceLast(Append(storage.results, NewOutcome), MaxStoredResults)]_vars

\* a log of 1000 saved outcomes after two arrivals: 200 in memory, 1000
\* in the storage, the two that arrived at the end of both
C27_Witness ==
  /\ arrivals = 2
  /\ Len(results) = 200
  /\ Len(storage.results) = MaxStoredResults
  /\ storage.results[MaxStoredResults].color = "black"
  /\ results[199].color = "black"
  /\ results[198].color = "red"

(***************************************************************************)
(* Properties of the validation of received outcomes.                      *)
(***************************************************************************)
\* what was received is no outcome: its colour is none of the three
\* codes, or its roll is not a number, or its time is not a date
IllFormed(raw) ==
  \/ raw.color \notin {JsNumber(0), JsNumber(1), JsNumber(2)}
  \/ raw.roll.type # "number"
  \/ ~NewDate(raw.created_at).valid

\* C24 as claimed: a received outcome whose colour is none of the three,
\* or whose number or timestamp is not well-typed, is rejected by the
\* validation, and is not turned into an outcome of a valid colour
C24_InvalidRejected ==
  received # Null /\ IllFormed(received.raw) =>
    /\ ~received.valid
    /\ received.raw.color \notin {JsNumber(0), JsNumber(1), JsNumber(2)} =>
         received.result.color.text \notin Colors

====
